---- MODULE Spec2Model ----
(***************************************************************************)
(* Model of the RAG document question-answering program.                   *)
(*                                                                         *)
(*   Spec    the query workflow: GraphBuilder.run drives the two-node       *)
(*           graph (RAGNodes.retrieve_docs, RAGNodes.generate_answer) and   *)
(*           the ReAct agent loop with its two tools.                       *)
(*   SpecVS  the VectorStore objects and the persisted index location.      *)
(***************************************************************************)
EXTENDS Integers, Sequences, FiniteSets, TLC

(***************************************************************************)
(* Bounds of the model.                                                    *)
(***************************************************************************)
\* The agent graph's limit on supersteps.  The program never sets it and
\* inherits the library default, so the model keeps it a small parameter.
RecursionLimit == 3

\* Longest list of documents handed to create_retriever or add_documents.
MaxDocs == 2

\* Most documents an index holds.
MaxIndexLen == 2

(***************************************************************************)
(* Values.                                                                 *)
(***************************************************************************)
\* Python's None where a string is expected.
None == "<None>"

Questions == {"q1", "q2"}

\* str(e) of the exceptions the collaborators raise; str(Exception()) is "".
ExcTexts == {"", "timeout"}

\* Documents a retriever hands back: page_content and metadata.
DocA == [page_content |-> "alpha", source |-> "a.pdf", title |-> None]
DocB == [page_content |-> "beta", source |-> None, title |-> None]

\* Results of retriever.invoke(question) when it does not raise.
RetrieverResults == {<<>>, <<DocA>>, <<DocA, DocB>>}

\* Results of tavily_client.search when it does not raise: None stands for a
\* falsy result or one without a "results" key.
NoResults == <<[title |-> None, content |-> None]>>
TavilyResults == {NoResults, <<>>, <<[title |-> "T", content |-> "web"]>>}

\* Content of the last message of a finished agent run: None stands for a
\* run with no messages or a message without content.
FinalContents == {None, "", "Paris."}

ToolNames == {"retriever", "tavily_search"}

VARIABLES
    graph,          \* GraphBuilder.graph: None or "compiled"
    agent,          \* RAGNodes._agent: None or "agent"
    pc,             \* position of the run call
    state,          \* the RAGState of the invocation in progress
    messages,       \* the agent's conversation
    steps,          \* supersteps the agent graph has executed
    pending,        \* tool call requested by the model, or None
    result,         \* the state run returned (NoState before it returns)
    trace,          \* nodes of the workflow graph executed in this invocation
    hist,           \* what happened in this invocation
    lib,            \* behaviour of the installed agent library
    vectorstore,    \* VectorStore.vectorstore of each instance: an object, or 0 for None
    retriever,      \* VectorStore.retriever of each instance: the object it searches, or 0
    heap,           \* the FAISS objects: their vectors and documents
    disk,           \* the persist locations on disk
    saved,          \* per location, the index its last complete save wrote
    built,          \* per instance: "none", "built" once create_retriever has built
                    \* an index, "succeeded" once create_retriever or load succeeded
    last            \* the last VectorStore call and its outcome

vsVars == <<vectorstore, retriever, heap, disk, saved, built, last>>

wfVars == <<graph, agent, pc, state, messages, steps, pending, result, trace,
            hist, lib>>

NoState == [question |-> None, retrieved_docs |-> <<>>, answer |-> None]

NoHist == [retrieveErr |-> None, agentErr |-> None, buildErr |-> FALSE,
           toolErr |-> None, toolErrSeen |-> FALSE, toolErrLeft |-> FALSE,
           boundHit |-> FALSE, question |-> None, docs |-> <<>>,
           again |-> FALSE]

NoTrace == [started |-> <<>>, completed |-> <<>>]

Started(t, n) == [t EXCEPT !.started = Append(@, n)]

Completed(t, n) == [t EXCEPT !.completed = Append(@, n)]

Ran(t, n) == Completed(Started(t, n), n)

(***************************************************************************)
(* The workflow graph built by GraphBuilder.build.                        *)
(***************************************************************************)
EntryPoint == "retriever"

EdgesSkipResponder == {<<"retriever", "END">>, <<"responder", "END">>}

Edges == {<<"retriever", "responder">>, <<"responder", "END">>}

NextNode(n) == CHOOSE m \in {"retriever", "responder", "END"} : <<n, m>> \in Edges

(***************************************************************************)
(* RAGNodes.retrieve_docs                                                  *)
(***************************************************************************)
RetrieveOk(s, docs) ==
    [question |-> s.question, retrieved_docs |-> docs, answer |-> s.answer]

RetrieveFailedKeepAnswer(s, e) ==
    [question |-> s.question, retrieved_docs |-> <<>>, answer |-> s.answer]

RetrieveFailed(s, e) ==
    [question |-> s.question, retrieved_docs |-> <<>>,
     answer |-> "Error retrieving documents: " \o e]

(***************************************************************************)
(* RAGNodes.generate_answer: the two return statements.                    *)
(***************************************************************************)
\* answer or "No answer found."
AnswerOr(answer) ==
    IF answer = None \/ answer = "" THEN "No answer found." ELSE answer

AnswerSentinelOnError(e) == "No answer found."

\* f"Error generating answer: {str(e)}"
AnswerOnError(e) == "Error generating answer: " \o e

AnsweredKeepsEarlier(s, answer) ==
    [question |-> s.question, retrieved_docs |-> s.retrieved_docs,
     answer |-> IF s.answer # "" THEN s.answer ELSE answer]

Answered(s, answer) ==
    [question |-> s.question, retrieved_docs |-> s.retrieved_docs,
     answer |-> answer]

\* The try block's return: the node hands the graph a state.
GenerateAnswerReturn(s, content) ==
    [raised |-> FALSE, state |-> Answered(s, AnswerOr(content))]

GenerateAnswerReraise(s, e) == [raised |-> TRUE, state |-> s]

\* The except block: it returns a state as well, it does not re-raise.
GenerateAnswerExcept(s, e) ==
    [raised |-> FALSE, state |-> Answered(s, AnswerOnError(e))]

(***************************************************************************)
(* The tools of RAGNodes._build_tools.                                     *)
(***************************************************************************)
MaxToolDocs == 8

Truthy(x) == x # None /\ x # ""

Head8(docs) == SubSeq(docs, 1, IF Len(docs) < MaxToolDocs THEN Len(docs) ELSE MaxToolDocs)

DocTitle(d, i) ==
    IF Truthy(d.title) THEN d.title
    ELSE IF Truthy(d.source) THEN d.source
    ELSE "doc_" \o ToString(i)

DocEntry(d, i) == "[" \o ToString(i) \o "] " \o DocTitle(d, i) \o "\n" \o d.page_content

RECURSIVE JoinLines(_)
JoinLines(lines) ==
    IF lines = <<>> THEN ""
    ELSE IF Len(lines) = 1 THEN lines[1]
    ELSE lines[1] \o "\n" \o JoinLines(Tail(lines))

\* retriever_tools_fn, given what retriever.invoke returned.
RetrieverToolOutput(docs) ==
    IF docs = <<>> THEN "No documents found"
    ELSE JoinLines([i \in 1..Len(Head8(docs)) |-> DocEntry(Head8(docs)[i], i)])

\* tavily_search_fn, given what tavily_client.search returned.
TavilyToolOutput(results) ==
    IF results = NoResults THEN "No search results found"
    ELSE JoinLines([i \in 1..Len(results) |->
                       "- " \o results[i].title \o ": " \o results[i].content])

(***************************************************************************)
(* The agent of RAGNodes._build_agent (create_react_agent): what the       *)
(* library does with a tool's exception and with the step limit.           *)
(***************************************************************************)
\* Content of the tool message the library's tool node makes of an exception
\* when it handles tool errors.
ToolErrorMessage(e) == "Error: " \o e \o "\n Please fix your mistakes."

\* The message the library substitutes for a tool call it has no steps left for.
SorryMessage == "Sorry, need more steps to process this request."

\* str(GraphRecursionError)
RecursionErrorText == "Recursion limit reached without hitting a stop condition."

Msg(role, content) == [role |-> role, content |-> content]

(***************************************************************************)
(* Initial state: a GraphBuilder just constructed.                         *)
(***************************************************************************)
InitWF ==
    /\ graph = None
    /\ agent = None
    /\ pc = "idle"
    /\ state = NoState
    /\ messages = <<>>
    /\ steps = 0
    /\ pending = None
    /\ result = NoState
    /\ trace = NoTrace
    /\ hist = NoHist
    /\ lib \in [handleToolErrors : BOOLEAN, remainingSteps : BOOLEAN]

(***************************************************************************)
(* GraphBuilder.run: builds the graph when there is none and invokes it on *)
(* a fresh state.                                                          *)
(***************************************************************************)
RunKeepsState(question) ==
    /\ pc \in {"idle", "returned", "raised"}
    /\ graph' = "compiled"
    /\ state' = [question |-> question, retrieved_docs |-> state.retrieved_docs,
                 answer |-> state.answer]
    /\ pc' = EntryPoint
    /\ result' = NoState
    /\ trace' = NoTrace
    /\ hist' = [NoHist EXCEPT !.question = question, !.again = (graph # None)]
    /\ messages' = <<>>
    /\ steps' = 0
    /\ pending' = None
    /\ UNCHANGED <<agent, lib>>

Run(question) ==
    /\ pc \in {"idle", "returned", "raised"}
    /\ graph' = "compiled"
    /\ state' = [question |-> question, retrieved_docs |-> <<>>, answer |-> ""]
    /\ pc' = EntryPoint
    /\ result' = NoState
    /\ trace' = NoTrace
    /\ hist' = [NoHist EXCEPT !.question = question, !.again = (graph # None)]
    /\ messages' = <<>>
    /\ steps' = 0
    /\ pending' = None
    /\ UNCHANGED <<agent, lib>>

\* The node "retriever": retriever.invoke returns docs.
RetrieveDocs(docs) ==
    /\ pc = "retriever"
    /\ state' = RetrieveOk(state, docs)
    /\ hist' = [hist EXCEPT !.docs = docs]
    /\ trace' = Ran(trace, "retriever")
    /\ pc' = NextNode("retriever")
    /\ UNCHANGED <<graph, agent, messages, steps, pending, result, lib>>

\* The node "retriever": retriever.invoke raises e.
RetrieveDocsRaises(e) ==
    /\ pc = "retriever"
    /\ state' = RetrieveFailed(state, e)
    /\ hist' = [hist EXCEPT !.retrieveErr = e]
    /\ trace' = Ran(trace, "retriever")
    /\ pc' = NextNode("retriever")
    /\ UNCHANGED <<graph, agent, messages, steps, pending, result, lib>>

\* The node "responder" hands its outcome to the graph: a state, with which
\* the graph moves on, or an exception, which graph.invoke and run re-raise.
ResponderEnds(out) ==
    /\ state' = out.state
    /\ trace' = Completed(trace, "responder")
    /\ pc' = IF out.raised THEN "raised" ELSE NextNode("responder")
    /\ pending' = None

\* The node "responder" starts: the agent is built when there is none, and
\* invoked on the question alone.
GenerateAnswerBegin ==
    /\ pc = "responder"
    /\ agent' = "agent"
    /\ messages' = <<Msg("human", state.question)>>
    /\ steps' = 0
    /\ pending' = None
    /\ trace' = Started(trace, "responder")
    /\ pc' = "agent"
    /\ UNCHANGED <<graph, state, result, hist, lib>>

\* The node "responder" when _build_agent raises (TavilyClient() or
\* create_react_agent fails): the exception is logged, re-raised and caught
\* by generate_answer.
GenerateAnswerBuildFails(e) ==
    /\ pc = "responder"
    /\ agent = None
    /\ hist' = [hist EXCEPT !.agentErr = e, !.buildErr = TRUE]
    /\ LET out == GenerateAnswerExcept(state, e)
       IN  /\ state' = out.state
           /\ trace' = Ran(trace, "responder")
           /\ pc' = IF out.raised THEN "raised" ELSE NextNode("responder")
    /\ UNCHANGED <<graph, agent, messages, steps, pending, result, lib>>

\* The model answers with a final text: the loop ends and generate_answer
\* returns the content of the last message.
ModelFinal(content) ==
    /\ pc = "agent"
    /\ steps < RecursionLimit
    /\ steps' = steps + 1
    /\ messages' = Append(messages, Msg("ai", content))
    /\ ResponderEnds(GenerateAnswerReturn(state, content))
    /\ UNCHANGED <<graph, agent, result, hist, lib>>

\* The model asks for a tool and there are steps left for it.
ModelCallsTool(tool) ==
    /\ pc = "agent"
    /\ steps < RecursionLimit
    /\ ~(lib.remainingSteps /\ RecursionLimit - steps < 2)
    /\ steps' = steps + 1
    /\ messages' = Append(messages, Msg("ai", ""))
    /\ pending' = tool
    /\ pc' = "tools"
    /\ UNCHANGED <<graph, agent, state, result, trace, hist, lib>>

\* The model asks for a tool on the last step, in a library that tracks the
\* remaining steps: the library replaces the request by its own message and
\* the loop ends.
ModelOutOfSteps(tool) ==
    /\ pc = "agent"
    /\ steps < RecursionLimit
    /\ lib.remainingSteps /\ RecursionLimit - steps < 2
    /\ steps' = steps + 1
    /\ messages' = Append(messages, Msg("ai", SorryMessage))
    /\ hist' = [hist EXCEPT !.boundHit = TRUE]
    /\ ResponderEnds(GenerateAnswerReturn(state, SorryMessage))
    /\ UNCHANGED <<graph, agent, result, lib>>

\* The step limit is reached with the loop unfinished: agent.invoke raises
\* the library's recursion error.
RecursionLimitReached ==
    /\ pc \in {"agent", "tools"}
    /\ steps >= RecursionLimit
    /\ hist' = [hist EXCEPT !.boundHit = TRUE, !.agentErr = RecursionErrorText]
    /\ ResponderEnds(GenerateAnswerExcept(state, RecursionErrorText))
    /\ UNCHANGED <<graph, agent, messages, steps, result, lib>>

\* The model call itself raises.
ModelRaises(e) ==
    /\ pc = "agent"
    /\ steps < RecursionLimit
    /\ hist' = [hist EXCEPT !.agentErr = e]
    /\ ResponderEnds(GenerateAnswerExcept(state, e))
    /\ UNCHANGED <<graph, agent, messages, steps, result, lib>>

\* The tool node runs retriever_tools_fn.
RetrieverTool(docs) ==
    /\ pc = "tools"
    /\ pending = "retriever"
    /\ steps < RecursionLimit
    /\ steps' = steps + 1
    /\ messages' = Append(messages, Msg("tool", RetrieverToolOutput(docs)))
    /\ pending' = None
    /\ pc' = "agent"
    /\ UNCHANGED <<graph, agent, state, result, trace, hist, lib>>

\* The tool node runs tavily_search_fn.
TavilyTool(results) ==
    /\ pc = "tools"
    /\ pending = "tavily_search"
    /\ steps < RecursionLimit
    /\ steps' = steps + 1
    /\ messages' = Append(messages, Msg("tool", TavilyToolOutput(results)))
    /\ pending' = None
    /\ pc' = "agent"
    /\ UNCHANGED <<graph, agent, state, result, trace, hist, lib>>

\* A tool function raises e (retriever.invoke or tavily_client.search): the
\* tool functions have no handler of their own, so the exception leaves them
\* and reaches the library's tool node, which makes a tool message of it and
\* goes on.
ToolRaisesHandled(e) ==
    /\ pc = "tools"
    /\ pending \in ToolNames
    /\ steps < RecursionLimit
    /\ lib.handleToolErrors
    /\ steps' = steps + 1
    /\ messages' = Append(messages, Msg("tool", ToolErrorMessage(e)))
    /\ hist' = [hist EXCEPT !.toolErr = e, !.toolErrSeen = TRUE]
    /\ pending' = None
    /\ pc' = "agent"
    /\ UNCHANGED <<graph, agent, state, result, trace, lib>>

\* The same, in a library whose tool node re-raises what a tool raised: the
\* exception ends the loop and leaves agent.invoke.
ToolRaisesPropagates(e) ==
    /\ pc = "tools"
    /\ pending \in ToolNames
    /\ steps < RecursionLimit
    /\ ~lib.handleToolErrors
    /\ hist' = [hist EXCEPT !.toolErr = e, !.toolErrLeft = TRUE, !.agentErr = e]
    /\ ResponderEnds(GenerateAnswerExcept(state, e))
    /\ UNCHANGED <<graph, agent, messages, steps, result, lib>>

\* The graph reached END: graph.invoke returns the state and run returns it.
RunReturns ==
    /\ pc = "END"
    /\ result' = state
    /\ pc' = "returned"
    /\ UNCHANGED <<graph, agent, state, messages, steps, pending, trace, hist, lib>>

\* A new GraphBuilder is constructed (app.py makes one per query).
NewGraphBuilder ==
    /\ pc = "returned"
    /\ graph' = None
    /\ agent' = None
    /\ pc' = "idle"
    /\ UNCHANGED <<state, messages, steps, pending, result, trace, hist, lib>>

NextWF ==
    \/ \E q \in Questions : Run(q)
    \/ \E docs \in RetrieverResults : RetrieveDocs(docs)
    \/ \E e \in ExcTexts : RetrieveDocsRaises(e)
    \/ GenerateAnswerBegin
    \/ \E e \in ExcTexts : GenerateAnswerBuildFails(e)
    \/ \E c \in FinalContents : ModelFinal(c)
    \/ \E t \in ToolNames : ModelCallsTool(t)
    \/ \E t \in ToolNames : ModelOutOfSteps(t)
    \/ RecursionLimitReached
    \/ \E e \in ExcTexts : ModelRaises(e)
    \/ \E docs \in RetrieverResults : RetrieverTool(docs)
    \/ \E r \in TavilyResults : TavilyTool(r)
    \/ \E e \in ExcTexts : ToolRaisesHandled(e)
    \/ \E e \in ExcTexts : ToolRaisesPropagates(e)
    \/ RunReturns
    \/ NewGraphBuilder

(***************************************************************************)
(* VectorStore: the values.                                                *)
(***************************************************************************)
Instances == {"vs"}

\* Every instance is constructed with DEFAULT_PERSIST_PATH.
Locations == {"faiss_index"}

PersistDirectory(i) == "faiss_index"

\* The optional path argument: path or self.persist_directory.
PathArgs == {None} \cup Locations

Resolve(i, path) == IF path = None THEN PersistDirectory(i) ELSE path

Chunks == {DocA, DocB}

SeqsUpTo(S, n) == UNION {[1..m -> S] : m \in 0..n}

DocLists == SeqsUpTo(Chunks, MaxDocs)

\* The embedding function, on the texts of the model.
Embed(text) ==
    CASE text = "alpha" -> 1
      [] text = "beta" -> 3
      [] text = "q1" -> 1
      [] text = "q2" -> 2
      [] OTHER -> 0

Dist(a, b) == (a - b) * (a - b)

EmbedDocuments(docs) == [i \in 1..Len(docs) |-> Embed(docs[i].page_content)]

\* A FAISS object: the vectors of its index and, by position, the documents
\* of its docstore.
EmptyIndex == [vectors |-> <<>>, docs |-> <<>>]

\* FAISS.from_documents
FromDocuments(docs) == [vectors |-> EmbedDocuments(docs), docs |-> docs]

\* FAISS.add_documents
AddTo(idx, docs) ==
    [vectors |-> idx.vectors \o EmbedDocuments(docs), docs |-> idx.docs \o docs]

\* Positions of the index, nearest to the query vector first, earlier
\* insertion first among equals.
RECURSIVE NearestFirst(_, _, _)
NearestFirst(vectors, qv, rest) ==
    IF rest = {} THEN <<>>
    ELSE LET best == CHOOSE p \in rest : \A r \in rest :
                        \/ Dist(vectors[p], qv) < Dist(vectors[r], qv)
                        \/ Dist(vectors[p], qv) = Dist(vectors[r], qv) /\ p <= r
         IN  <<best>> \o NearestFirst(vectors, qv, rest \ {best})

Min(a, b) == IF a < b THEN a ELSE b

\* The retriever's search of a FAISS object: the k nearest positions, mapped
\* to their documents; a position without a document is a lookup error.
Search(idx, q, k) ==
    LET order == NearestFirst(idx.vectors, Embed(q), 1..Len(idx.vectors))
        top == SubSeq(order, 1, Min(k, Len(order)))
    IN  IF \E n \in 1..Len(top) : top[n] > Len(idx.docs)
        THEN [raised |-> TRUE, docs |-> <<>>]
        ELSE [raised |-> FALSE, docs |-> [n \in 1..Len(top) |-> idx.docs[top[n]]]]

(***************************************************************************)
(* The persist location: a directory holding index.faiss and index.pkl.    *)
(* A file is <<>> when missing and <<content>> when present.               *)
(***************************************************************************)
Absent == [dir |-> FALSE, faiss |-> <<>>, pkl |-> <<>>]

MkDir(d) == [d EXCEPT !.dir = TRUE]

WriteFaiss(d, idx) == [d EXCEPT !.faiss = <<idx.vectors>>]

Reverse(s) == [n \in 1..Len(s) |-> s[Len(s) + 1 - n]]

WritePklReversed(d, idx) == [d EXCEPT !.pkl = <<Reverse(idx.docs)>>]

WritePkl(d, idx) == [d EXCEPT !.pkl = <<idx.docs>>]

\* FAISS.save_local: make the directory, write the index, pickle the docstore.
SaveLocal(d, idx) == WritePkl(WriteFaiss(MkDir(d), idx), idx)

\* save_local interrupted by an I/O error after n of its three steps.
SaveLocalUpTo(d, idx, n) ==
    CASE n = 0 -> d
      [] n = 1 -> MkDir(d)
      [] n = 2 -> WriteFaiss(MkDir(d), idx)

\* Path(path).exists()
PathExists(d) == d.dir

\* FAISS.load_local: fails when a file is missing.
LoadLocal(d) ==
    IF d.faiss = <<>> \/ d.pkl = <<>>
    THEN [ok |-> FALSE, index |-> EmptyIndex]
    ELSE [ok |-> TRUE, index |-> [vectors |-> d.faiss[1], docs |-> d.pkl[1]]]

\* shutil.rmtree
RmTree(d) == Absent

(***************************************************************************)
(* VectorStore: the objects.                                               *)
(***************************************************************************)
Objects == 1..(2 * Cardinality(Instances) + 1)

Referenced(vs, rt) == {vs[i] : i \in Instances} \cup {rt[i] : i \in Instances}

\* An object no instance refers to.
FreeObject == CHOOSE o \in Objects : o \notin Referenced(vectorstore, retriever)

\* Objects nothing refers to any more are dropped.
Collect(h, vs, rt) ==
    [o \in Objects |-> IF o \in Referenced(vs, rt) THEN h[o] ELSE EmptyIndex]

Call(op, i, loc, docs, save, outcome) ==
    [op |-> op, inst |-> i, loc |-> loc, empty |-> (docs = <<>>), save |-> save,
     outcome |-> outcome]

NoCall == Call("init", None, None, <<>>, FALSE, "ok")

InitDisks == {Absent, MkDir(Absent), SaveLocal(Absent, FromDocuments(<<DocB>>))}

InitVS ==
    /\ vectorstore = [i \in Instances |-> 0]
    /\ retriever = [i \in Instances |-> 0]
    /\ heap = [o \in Objects |-> EmptyIndex]
    /\ disk \in [Locations -> InitDisks]
    /\ saved = [l \in Locations |-> <<>>]
    /\ built = [i \in Instances |-> "none"]
    /\ last = NoCall

\* VectorStore.__init__: a fresh instance in place of i.
Construct(i) ==
    /\ vectorstore' = [vectorstore EXCEPT ![i] = 0]
    /\ retriever' = [retriever EXCEPT ![i] = 0]
    /\ heap' = Collect(heap, vectorstore', retriever')
    /\ built' = [built EXCEPT ![i] = "none"]
    /\ last' = Call("init", i, None, <<>>, FALSE, "ok")
    /\ UNCHANGED <<disk, saved>>

\* The effect of self.save(path) on the disk once self.vectorstore is known
\* to be set: fail = 3 is a complete save_local, fail < 3 one that an I/O
\* error interrupts after that many steps.
SaveWrites(idx, loc, fail) ==
    /\ disk' = [disk EXCEPT ![loc] =
                  IF fail = 3 THEN SaveLocal(@, idx) ELSE SaveLocalUpTo(@, idx, fail)]
    /\ saved' = [saved EXCEPT ![loc] =
                  IF fail = 3 THEN <<idx>> ELSE IF fail = 0 THEN @ ELSE <<>>]

SaveStages == 0..3

CreateRetrieverUnchecked(i, docs, save, fail) ==
    /\ Len(docs) <= MaxIndexLen
    /\ vectorstore' = [vectorstore EXCEPT ![i] = FreeObject]
    /\ retriever' = [retriever EXCEPT ![i] = FreeObject]
    /\ heap' = Collect([heap EXCEPT ![FreeObject] = FromDocuments(docs)],
                       vectorstore', retriever')
    /\ IF save
       THEN SaveWrites(FromDocuments(docs), PersistDirectory(i), fail)
       ELSE fail = 3 /\ UNCHANGED <<disk, saved>>
    /\ built' = [built EXCEPT ![i] =
                    IF fail = 3 \/ @ = "succeeded" THEN "succeeded" ELSE "built"]
    /\ last' = Call("create_retriever", i, None, docs, save,
                    IF fail = 3 THEN "ok" ELSE "raise")

\* create_retriever(documents, save)
CreateRetriever(i, docs, save, fail) ==
    IF docs = <<>>
    THEN /\ fail = 3
         /\ last' = Call("create_retriever", i, None, <<>>, save, "ValueError")
         /\ UNCHANGED <<vectorstore, retriever, heap, disk, saved, built>>
    ELSE /\ Len(docs) <= MaxIndexLen
         /\ vectorstore' = [vectorstore EXCEPT ![i] = FreeObject]
         /\ retriever' = [retriever EXCEPT ![i] = FreeObject]
         /\ heap' = Collect([heap EXCEPT ![FreeObject] = FromDocuments(docs)],
                            vectorstore', retriever')
         /\ IF save
            THEN SaveWrites(FromDocuments(docs), PersistDirectory(i), fail)
            ELSE fail = 3 /\ UNCHANGED <<disk, saved>>
         /\ built' = [built EXCEPT ![i] =
                         IF fail = 3 \/ @ = "succeeded" THEN "succeeded" ELSE "built"]
         /\ last' = Call("create_retriever", i, None, docs, save,
                         IF fail = 3 THEN "ok" ELSE "raise")

\* create_retriever when the embedding call inside FAISS.from_documents raises.
CreateRetrieverEmbeddingFails(i, docs, save) ==
    /\ docs # <<>>
    /\ last' = Call("create_retriever", i, None, docs, save, "raise")
    /\ UNCHANGED <<vectorstore, retriever, heap, disk, saved, built>>

SaveUnchecked(i, path, fail) ==
    /\ SaveWrites(IF vectorstore[i] = 0 THEN EmptyIndex ELSE heap[vectorstore[i]],
                  Resolve(i, path), fail)
    /\ last' = Call("save", i, Resolve(i, path), <<>>, FALSE,
                    IF fail = 3 THEN "ok" ELSE "raise")
    /\ UNCHANGED <<vectorstore, retriever, heap, built>>

\* save(path)
Save(i, path, fail) ==
    IF vectorstore[i] = 0
    THEN /\ fail = 3
         /\ last' = Call("save", i, Resolve(i, path), <<>>, FALSE, "ValueError")
         /\ UNCHANGED <<vectorstore, retriever, heap, disk, saved, built>>
    ELSE /\ SaveWrites(heap[vectorstore[i]], Resolve(i, path), fail)
         /\ last' = Call("save", i, Resolve(i, path), <<>>, FALSE,
                         IF fail = 3 THEN "ok" ELSE "raise")
         /\ UNCHANGED <<vectorstore, retriever, heap, built>>

LoadMissingRaises(i, path) ==
    LET loc == Resolve(i, path)
        loaded == LoadLocal(disk[loc])
    IN  IF ~loaded.ok
        THEN /\ last' = Call("load", i, loc, <<>>, FALSE,
                             IF PathExists(disk[loc]) THEN "False" ELSE "raise")
             /\ UNCHANGED <<vectorstore, retriever, heap, disk, saved, built>>
        ELSE /\ vectorstore' = [vectorstore EXCEPT ![i] = FreeObject]
             /\ retriever' = [retriever EXCEPT ![i] = FreeObject]
             /\ heap' = Collect([heap EXCEPT ![FreeObject] = loaded.index],
                                vectorstore', retriever')
             /\ built' = [built EXCEPT ![i] = "succeeded"]
             /\ last' = Call("load", i, loc, <<>>, FALSE, "True")
             /\ UNCHANGED <<disk, saved>>

LoadKeepsRetriever(i, path) ==
    LET loc == Resolve(i, path)
        loaded == LoadLocal(disk[loc])
    IN  IF ~PathExists(disk[loc]) \/ ~loaded.ok
        THEN /\ last' = Call("load", i, loc, <<>>, FALSE, "False")
             /\ UNCHANGED <<vectorstore, retriever, heap, disk, saved, built>>
        ELSE /\ vectorstore' = [vectorstore EXCEPT ![i] = FreeObject]
             /\ heap' = Collect([heap EXCEPT ![FreeObject] = loaded.index],
                                vectorstore', retriever)
             /\ built' = [built EXCEPT ![i] = "succeeded"]
             /\ last' = Call("load", i, loc, <<>>, FALSE, "True")
             /\ UNCHANGED <<retriever, disk, saved>>

\* load(path)
Load(i, path) ==
    LET loc == Resolve(i, path)
        loaded == LoadLocal(disk[loc])
    IN  IF ~PathExists(disk[loc]) \/ ~loaded.ok
        THEN /\ last' = Call("load", i, loc, <<>>, FALSE, "False")
             /\ UNCHANGED <<vectorstore, retriever, heap, disk, saved, built>>
        ELSE /\ vectorstore' = [vectorstore EXCEPT ![i] = FreeObject]
             /\ retriever' = [retriever EXCEPT ![i] = FreeObject]
             /\ heap' = Collect([heap EXCEPT ![FreeObject] = loaded.index],
                                vectorstore', retriever')
             /\ built' = [built EXCEPT ![i] = "succeeded"]
             /\ last' = Call("load", i, loc, <<>>, FALSE, "True")
             /\ UNCHANGED <<disk, saved>>

\* load(path) when reading the existing location raises (an I/O error): the
\* handler returns False.
LoadReadFails(i, path) ==
    /\ PathExists(disk[Resolve(i, path)])
    /\ last' = Call("load", i, Resolve(i, path), <<>>, FALSE, "False")
    /\ UNCHANGED <<vectorstore, retriever, heap, disk, saved, built>>

\* exists(path)
Exists(i, path) ==
    /\ last' = Call("exists", i, Resolve(i, path), <<>>, FALSE,
                    IF PathExists(disk[Resolve(i, path)]) THEN "True" ELSE "False")
    /\ UNCHANGED <<vectorstore, retriever, heap, disk, saved, built>>

\* add_documents(documents, save)
AddDocuments(i, docs, save, fail) ==
    IF vectorstore[i] = 0
    THEN /\ fail = 3
         /\ last' = Call("add_documents", i, None, docs, save, "ValueError")
         /\ UNCHANGED <<vectorstore, retriever, heap, disk, saved, built>>
    ELSE /\ Len(heap[vectorstore[i]].docs) + Len(docs) <= MaxIndexLen
         /\ Len(heap[vectorstore[i]].vectors) + Len(docs) <= MaxIndexLen
         /\ heap' = [heap EXCEPT ![vectorstore[i]] = AddTo(@, docs)]
         /\ IF save
            THEN SaveWrites(AddTo(heap[vectorstore[i]], docs), PersistDirectory(i), fail)
            ELSE fail = 3 /\ UNCHANGED <<disk, saved>>
         /\ last' = Call("add_documents", i, None, docs, save,
                         IF fail = 3 THEN "ok" ELSE "raise")
         /\ UNCHANGED <<vectorstore, retriever, built>>

\* add_documents when the embedding call inside the FAISS object raises.
AddDocumentsEmbeddingFails(i, docs, save) ==
    /\ vectorstore[i] # 0
    /\ last' = Call("add_documents", i, None, docs, save, "raise")
    /\ UNCHANGED <<vectorstore, retriever, heap, disk, saved, built>>

\* delete(path)
DeleteStrict(i, path) ==
    LET loc == Resolve(i, path)
    IN  /\ disk' = [disk EXCEPT ![loc] = IF PathExists(@) THEN RmTree(@) ELSE @]
        /\ saved' = [saved EXCEPT ![loc] = IF PathExists(disk[loc]) THEN <<>> ELSE @]
        /\ last' = Call("delete", i, loc, <<>>, FALSE,
                         IF PathExists(disk[loc]) THEN "ok" ELSE "raise")
        /\ UNCHANGED <<vectorstore, retriever, heap, built>>

Delete(i, path) ==
    LET loc == Resolve(i, path)
    IN  /\ disk' = [disk EXCEPT ![loc] = IF PathExists(@) THEN RmTree(@) ELSE @]
        /\ saved' = [saved EXCEPT ![loc] = IF PathExists(disk[loc]) THEN <<>> ELSE @]
        /\ last' = Call("delete", i, loc, <<>>, FALSE, "ok")
        /\ UNCHANGED <<vectorstore, retriever, heap, built>>

\* delete(path) when shutil.rmtree raises before removing anything.
DeleteFails(i, path) ==
    /\ PathExists(disk[Resolve(i, path)])
    /\ last' = Call("delete", i, Resolve(i, path), <<>>, FALSE, "raise")
    /\ UNCHANGED <<vectorstore, retriever, heap, disk, saved, built>>

\* get_retriever()
GetRetriever(i) ==
    /\ last' = Call("get_retriever", i, None, <<>>, FALSE,
                    IF retriever[i] = 0 THEN "ValueError" ELSE "ok")
    /\ UNCHANGED <<vectorstore, retriever, heap, disk, saved, built>>

NextVS ==
    \/ \E i \in Instances : Construct(i)
    \/ \E i \in Instances, docs \in DocLists, save \in BOOLEAN, fail \in SaveStages :
          CreateRetriever(i, docs, save, fail)
    \/ \E i \in Instances, docs \in DocLists, save \in BOOLEAN :
          CreateRetrieverEmbeddingFails(i, docs, save)
    \/ \E i \in Instances, path \in PathArgs, fail \in SaveStages : Save(i, path, fail)
    \/ \E i \in Instances, path \in PathArgs : Load(i, path)
    \/ \E i \in Instances, path \in PathArgs : LoadReadFails(i, path)
    \/ \E i \in Instances, path \in PathArgs : Exists(i, path)
    \/ \E i \in Instances, docs \in DocLists, save \in BOOLEAN, fail \in SaveStages :
          AddDocuments(i, docs, save, fail)
    \/ \E i \in Instances, docs \in DocLists, save \in BOOLEAN :
          AddDocumentsEmbeddingFails(i, docs, save)
    \/ \E i \in Instances, path \in PathArgs : Delete(i, path)
    \/ \E i \in Instances, path \in PathArgs : DeleteFails(i, path)
    \/ \E i \in Instances : GetRetriever(i)

(***************************************************************************)
(* DocumentProcessor.split_documents: RecursiveCharacterTextSplitter with  *)
(* its default separators, keep_separator=True and strip_whitespace=True.  *)
(* Texts are strings; a split is a string, a chunk a stripped concatenation *)
(* of consecutive splits.                                                  *)
(***************************************************************************)
MaxTextLen == 5

MaxChunkSize == 3

Separators == <<"\n\n", "\n", " ", "">>

WhiteSpace == {" ", "\n"}

Char(t, n) == SubSeq(t, n, n)

RECURSIVE LStrip(_)
LStrip(t) ==
    IF t # "" /\ Char(t, 1) \in WhiteSpace THEN LStrip(SubSeq(t, 2, Len(t))) ELSE t

RECURSIVE RStrip(_)
RStrip(t) ==
    IF t # "" /\ Char(t, Len(t)) \in WhiteSpace
    THEN RStrip(SubSeq(t, 1, Len(t) - 1)) ELSE t

\* str.strip()
Strip(t) == RStrip(LStrip(t))

MatchAt(t, sep, n) ==
    /\ n + Len(sep) - 1 <= Len(t)
    /\ SubSeq(t, n, n + Len(sep) - 1) = sep

\* re.search(separator, text)
Contains(t, sep) == \E n \in 1..Len(t) : MatchAt(t, sep, n)

\* re.split: the pieces between the leftmost non-overlapping matches.
RECURSIVE RegexSplit(_, _)
RegexSplit(t, sep) ==
    IF ~Contains(t, sep) THEN <<t>>
    ELSE LET n == CHOOSE n \in 1..Len(t) :
                    MatchAt(t, sep, n) /\ \A m \in 1..(n - 1) : ~MatchAt(t, sep, m)
         IN  <<SubSeq(t, 1, n - 1)>>
                \o RegexSplit(SubSeq(t, n + Len(sep), Len(t)), sep)

\* _split_text_with_regex with keep_separator=True: every piece after the
\* first starts with the separator; empty pieces are dropped; the empty
\* separator splits into characters.
SplitTextWithRegex(t, sep) ==
    IF sep = "" THEN [n \in 1..Len(t) |-> Char(t, n)]
    ELSE LET p == RegexSplit(t, sep)
             kept == [n \in 1..Len(p) |-> IF n = 1 THEN p[1] ELSE sep \o p[n]]
         IN  SelectSeq(kept, LAMBDA s : s # "")

RECURSIVE Join(_, _)
Join(docs, separator) ==
    IF docs = <<>> THEN ""
    ELSE IF Len(docs) = 1 THEN docs[1]
    ELSE docs[1] \o separator \o Join(Tail(docs), separator)

\* _join_docs: the joined text stripped, or nothing when that is empty.
JoinDocs(docs, separator) ==
    IF Strip(Join(docs, separator)) = "" THEN <<>>
    ELSE <<Strip(Join(docs, separator))>>

SepLen(current, separator, more) ==
    IF Len(current) > more THEN Len(separator) ELSE 0

\* The while loop of _merge_splits: splits are dropped from the front of the
\* current chunk until what is kept fits the overlap and the next split.
RECURSIVE PopSplits(_, _, _, _, _, _)
PopSplits(current, total, len, separator, size, overlap) ==
    IF \/ total > overlap
       \/ (total + len + SepLen(current, separator, 0) > size /\ total > 0)
    THEN PopSplits(Tail(current),
                   total - (Len(current[1]) + SepLen(current, separator, 1)),
                   len, separator, size, overlap)
    ELSE [current |-> current, total |-> total]

\* One iteration of the for loop of _merge_splits over the split d.
MergeStepLate(acc, d, separator, size, overlap) ==
    LET flush == acc.total > size /\ Len(acc.current) > 0
        kept == IF flush
                THEN PopSplits(acc.current, acc.total, Len(d), separator, size, overlap)
                ELSE [current |-> acc.current, total |-> acc.total]
    IN  [docs |-> IF flush THEN acc.docs \o JoinDocs(acc.current, separator)
                  ELSE acc.docs,
         current |-> Append(kept.current, d),
         total |-> kept.total + Len(d) + SepLen(Append(kept.current, d), separator, 1)]

MergeStep(acc, d, separator, size, overlap) ==
    LET flush == /\ acc.total + Len(d) + SepLen(acc.current, separator, 0) > size
                 /\ Len(acc.current) > 0
        kept == IF flush
                THEN PopSplits(acc.current, acc.total, Len(d), separator, size, overlap)
                ELSE [current |-> acc.current, total |-> acc.total]
    IN  [docs |-> IF flush THEN acc.docs \o JoinDocs(acc.current, separator)
                  ELSE acc.docs,
         current |-> Append(kept.current, d),
         total |-> kept.total + Len(d) + SepLen(Append(kept.current, d), separator, 1)]

RECURSIVE MergeFrom(_, _, _, _, _, _)
MergeFrom(splits, n, acc, separator, size, overlap) ==
    IF n > Len(splits) THEN acc.docs \o JoinDocs(acc.current, separator)
    ELSE MergeFrom(splits, n + 1, MergeStep(acc, splits[n], separator, size, overlap),
                   separator, size, overlap)

\* _merge_splits
MergeSplits(splits, separator, size, overlap) ==
    MergeFrom(splits, 1, [docs |-> <<>>, current |-> <<>>, total |-> 0],
              separator, size, overlap)

\* The separator _split_text picks: the first that is empty or occurs in the
\* text, with the separators after it left for the recursion; the last one
\* when none does.
PickSeparator(t, separators) ==
    IF \E i \in 1..Len(separators) : separators[i] = "" \/ Contains(t, separators[i])
    THEN LET i == CHOOSE i \in 1..Len(separators) :
                    /\ separators[i] = "" \/ Contains(t, separators[i])
                    /\ \A j \in 1..(i - 1) :
                          separators[j] # "" /\ ~Contains(t, separators[j])
         IN  [separator |-> separators[i],
              new_separators |-> IF separators[i] = "" THEN <<>>
                                 ELSE SubSeq(separators, i + 1, Len(separators))]
    ELSE [separator |-> separators[Len(separators)], new_separators |-> <<>>]

RECURSIVE SplitText(_, _, _, _)
RECURSIVE GoodSplits(_, _, _, _, _, _, _)

\* The for loop of _split_text over the splits: short splits are collected
\* and merged, a long one is split again with the separators left, or kept
\* as it is when none is left.
GoodSplits(splits, n, good, final, new_separators, size, overlap) ==
    LET merged == IF good # <<>> THEN MergeSplits(good, "", size, overlap) ELSE <<>>
    IN  IF n > Len(splits) THEN final \o merged
        ELSE IF Len(splits[n]) < size
        THEN GoodSplits(splits, n + 1, Append(good, splits[n]), final,
                        new_separators, size, overlap)
        ELSE GoodSplits(splits, n + 1, <<>>,
                        final \o merged \o
                          (IF new_separators = <<>> THEN <<splits[n]>>
                           ELSE SplitText(splits[n], new_separators, size, overlap)),
                        new_separators, size, overlap)

\* RecursiveCharacterTextSplitter._split_text
SplitText(t, separators, size, overlap) ==
    LET pick == PickSeparator(t, separators)
    IN  GoodSplits(SplitTextWithRegex(t, pick.separator), 1, <<>>, <<>>,
                   pick.new_separators, size, overlap)

\* create_documents for one Document: a chunk Document per piece of text,
\* each with a copy of the metadata.
ChunksOf(doc, size, overlap) ==
    LET texts == SplitText(doc.page_content, Separators, size, overlap)
    IN  [n \in 1..Len(texts) |->
            [page_content |-> texts[n], source |-> doc.source, title |-> doc.title]]

\* split_documents(documents)
RECURSIVE SplitDocuments(_, _, _)
SplitDocuments(docs, size, overlap) ==
    IF docs = <<>> THEN <<>>
    ELSE ChunksOf(Head(docs), size, overlap) \o SplitDocuments(Tail(docs), size, overlap)

VARIABLES
    splitter,       \* the text splitter's chunk_size and chunk_overlap
    splitIn,        \* the Documents of the call split_documents has yet to split
    splitDoc,       \* the Document it split last
    splitChunks,    \* the chunks made of that Document
    splitOut        \* the chunks made so far: what split_documents returns

splitVars == <<splitter, splitIn, splitDoc, splitChunks, splitOut>>

SplitChars == {"a", " ", "\n"}

RECURSIVE TextsUpTo(_)
TextsUpTo(n) ==
    IF n = 0 THEN {""}
    ELSE TextsUpTo(n - 1) \cup {t \o c : t \in TextsUpTo(n - 1), c \in SplitChars}

NoDoc == [page_content |-> "", source |-> None, title |-> None]

\* Documents: any text of up to n characters with either metadata.
DocsUpTo(n) ==
    {[page_content |-> t, source |-> m.source, title |-> m.title] :
        t \in TextsUpTo(n), m \in Chunks}

\* The lists handed to split_documents: one Document of any text, or two
\* Documents of short texts.
SplitInputs ==
    {<<d>> : d \in DocsUpTo(MaxTextLen)}
        \cup {<<d, e>> : d \in DocsUpTo(MaxTextLen - 3), e \in DocsUpTo(MaxTextLen - 3)}

\* DocumentProcessor.__init__ with a chunk size s > 0 and an overlap o < s.
InitSplit ==
    /\ splitter \in {[chunk_size |-> s, chunk_overlap |-> o] :
                        s \in 1..MaxChunkSize, o \in 0..(MaxChunkSize - 1)}
    /\ splitter.chunk_overlap < splitter.chunk_size
    /\ splitIn \in SplitInputs
    /\ splitDoc = NoDoc
    /\ splitChunks = <<>>
    /\ splitOut = <<>>

\* split_documents at the next Document of its input: create_documents
\* splits its text and appends the chunks.
SplitNextDocument ==
    /\ splitIn # <<>>
    /\ splitIn' = Tail(splitIn)
    /\ splitDoc' = Head(splitIn)
    /\ splitChunks' = ChunksOf(Head(splitIn), splitter.chunk_size,
                               splitter.chunk_overlap)
    /\ splitOut' = splitOut \o splitChunks'
    /\ UNCHANGED splitter

NextSplit == SplitNextDocument

(***************************************************************************)
(* DocumentProcessor.load_documents: the loop over the sources and the     *)
(* loaders it dispatches to. What a fetch or a read does is the world's    *)
(* choice: it succeeds or it raises.                                       *)
(***************************************************************************)
MaxSources == 2

VARIABLES
    world,          \* the platform and the data directory's files
    loading         \* the load_documents call: sources left, Documents so far,
                    \* per source what it gave, and where the call is

loadVars == <<world, loading>>

\* The files a directory may hold, in listing order.
DirOrder == <<"a.pdf", "b.PDF", "c.Pdf", "n.txt">>

DirNames == {DirOrder[n] : n \in 1..Len(DirOrder)}

\* The sources: a URL, the directory, a text file, a PDF file, a file of
\* another type, and a PDF under a directory that may not be searched.
Sources == {"http://u", "data", "n.txt", "a.pdf", "x.docx", "locked/y.pdf"}

SourceLists == SeqsUpTo(Sources, MaxSources)

StartsWith(s, prefix) ==
    Len(s) >= Len(prefix) /\ SubSeq(s, 1, Len(prefix)) = prefix

EndsWith(s, suffix) ==
    Len(s) >= Len(suffix) /\ SubSeq(s, Len(s) - Len(suffix) + 1, Len(s)) = suffix

\* Path.suffix: the last component from its last dot on, "" without one.
PathSuffix(s) ==
    IF \E n \in 2..Len(s) : Char(s, n) = "." /\ Char(s, n - 1) # "/"
                               /\ \A m \in n..Len(s) : Char(s, m) # "/"
    THEN LET n == CHOOSE n \in 2..Len(s) :
                    /\ Char(s, n) = "."
                    /\ \A m \in (n + 1)..Len(s) : Char(s, m) # "."
         IN  SubSeq(s, n, Len(s))
    ELSE ""

LowerChar(c) ==
    CASE c = "P" -> "p" [] c = "D" -> "d" [] c = "F" -> "f"
      [] c = "T" -> "t" [] c = "X" -> "x" [] OTHER -> c

\* str.lower()
RECURSIVE Lower(_)
Lower(s) == IF s = "" THEN "" ELSE LowerChar(Char(s, 1)) \o Lower(SubSeq(s, 2, Len(s)))

\* Path.is_dir(): True, False, or the OSError of a stat the platform refuses
\* (pathlib passes on every error but "no such file").
IsDir(src) ==
    CASE src = "data" -> "True"
      [] StartsWith(src, "locked/") -> "raise"
      [] OTHER -> "False"

\* What a read can do: succeed, fail in PyMuPDF only, or fail altogether.
Reads == {"ok", "fitz fails", "unreadable"}

PageOf(file) == [page_content |-> "text of " \o file, source |-> file, title |-> None]

WebPage(url) == [page_content |-> "text of " \o url, source |-> url, title |-> "u"]

\* load_from_url([url]): the failure of a fetch is logged and skipped.
LoadFromUrl(url, read) == IF read = "ok" THEN <<WebPage(url)>> ELSE <<>>

\* load_from_txt: TextLoader, [] on any exception.
LoadFromTxt(file, read) ==
    [raised |-> FALSE, docs |-> IF read = "ok" THEN <<PageOf(file)>> ELSE <<>>]

\* PyPDFLoader(file).load()
PyPDFLoad(file, read) ==
    IF read = "unreadable" THEN [raised |-> TRUE, docs |-> <<>>]
    ELSE [raised |-> FALSE, docs |-> <<PageOf(file)>>]

\* _load_pdf_with_images: PyMuPDF page by page, PyPDFLoader when that raises.
LoadPdfWithImages(file, read) ==
    IF read = "ok" THEN [raised |-> FALSE, docs |-> <<PageOf(file)>>]
    ELSE PyPDFLoad(file, read)

\* load_from_pdf: with images when they are extracted and PyMuPDF is there,
\* PyPDFLoader otherwise; [] on any exception.
LoadFromPdf(file, read, images) ==
    LET out == IF images THEN LoadPdfWithImages(file, read) ELSE PyPDFLoad(file, read)
    IN  IF out.raised THEN <<>> ELSE out.docs

\* Path.glob(pattern) for a pattern "*" + ending: matching is by case where
\* the platform's paths are case-sensitive and regardless of case elsewhere.
Glob(files, ending, caseSensitive) ==
    SelectSeq(files, LAMBDA f : IF caseSensitive THEN EndsWith(f, ending)
                                ELSE EndsWith(Lower(f), Lower(ending)))

RECURSIVE LoadEach(_, _, _)
LoadEach(files, reads, images) ==
    IF files = <<>> THEN <<>>
    ELSE LoadFromPdf(Head(files), reads[Head(files)], images)
            \o LoadEach(Tail(files), reads, images)

\* load_from_directory: every file of glob("*.pdf") and then of glob("*.PDF")
\* through load_from_pdf when images are extracted; PyPDFDirectoryLoader
\* otherwise, which raises on the first file it cannot read; [] on any
\* exception.
LoadFromDirectory(files, reads, w) ==
    IF w.pymupdf
    THEN LoadEach(Glob(files, ".pdf", w.caseSensitive)
                    \o Glob(files, ".PDF", w.caseSensitive), reads, TRUE)
    ELSE LET found == Glob(files, ".pdf", w.caseSensitive)
         IN  IF \E n \in 1..Len(found) : reads[found[n]] = "unreadable"
             THEN <<>>
             ELSE LoadEach(found, reads, FALSE)

DirFiles(w) == SelectSeq(DirOrder, LAMBDA f : f \in w.files)

\* One iteration of the loop of load_documents over the source src: what the
\* call does with it, given what the reads of this iteration do.
LoadSource(src, read, reads, w) ==
    IF StartsWith(src, "http://") \/ StartsWith(src, "https://")
    THEN [raised |-> FALSE, docs |-> LoadFromUrl(src, read)]
    ELSE IF IsDir(src) = "raise" THEN [raised |-> TRUE, docs |-> <<>>]
    ELSE IF IsDir(src) = "True"
    THEN [raised |-> FALSE, docs |-> LoadFromDirectory(DirFiles(w), reads, w)]
    ELSE IF Lower(PathSuffix(src)) = ".txt" THEN LoadFromTxt(src, read)
    ELSE IF Lower(PathSuffix(src)) = ".pdf"
    THEN [raised |-> FALSE, docs |-> LoadFromPdf(src, read, w.pymupdf)]
    ELSE [raised |-> FALSE, docs |-> <<>>]

NoLoading == [sources |-> <<>>, docs |-> <<>>, parts |-> <<>>, pc |-> "returned"]

NoWorld == [caseSensitive |-> TRUE, pymupdf |-> TRUE, files |-> {}]

IdleLoad ==
    /\ world = NoWorld
    /\ loading = NoLoading

\* load_documents(sources) is called on some platform with some directory.
InitLoad ==
    /\ world \in [caseSensitive : BOOLEAN, pymupdf : BOOLEAN, files : SUBSET DirNames]
    /\ loading \in {[sources |-> s, docs |-> <<>>, parts |-> <<>>, pc |-> "loop"] :
                        s \in SourceLists}

\* The files of the directory that are PDFs whatever the case of their
\* extension, and the reads that matter for a source: those of the PDFs for a
\* directory, its own for a URL or a file, none where nothing is read.
PdfFiles(w) == {f \in w.files : Lower(PathSuffix(f)) = ".pdf"}

NoReads == [f \in {} |-> "ok"]

ReadsOf(src, w) ==
    IF StartsWith(src, "http://") \/ StartsWith(src, "https://")
    THEN {"ok", "unreadable"} \X {NoReads}
    ELSE IF IsDir(src) = "raise" THEN {"ok"} \X {NoReads}
    ELSE IF IsDir(src) = "True" THEN {"ok"} \X [PdfFiles(w) -> Reads]
    ELSE IF Lower(PathSuffix(src)) = ".txt" THEN {"ok", "unreadable"} \X {NoReads}
    ELSE IF Lower(PathSuffix(src)) = ".pdf" THEN Reads \X {NoReads}
    ELSE {"ok"} \X {NoReads}

\* The loop body for the next source. parts records, per source, the source,
\* what its reads did, and the Documents it gave.
LoadNextSource(read, reads) ==
    /\ loading.pc = "loop"
    /\ loading.sources # <<>>
    /\ <<read, reads>> \in ReadsOf(Head(loading.sources), world)
    /\ LET src == Head(loading.sources)
           out == LoadSource(src, read, reads, world)
       IN  loading' =
             IF out.raised
             THEN [loading EXCEPT !.pc = "raised"]
             ELSE [sources |-> Tail(loading.sources),
                   docs |-> loading.docs \o out.docs,
                   parts |-> Append(loading.parts,
                                    [source |-> src, read |-> read, reads |-> reads,
                                     docs |-> out.docs]),
                   pc |-> "loop"]
    /\ UNCHANGED world

\* The loop is over: load_documents returns docs.
LoadDocumentsReturns ==
    /\ loading.pc = "loop"
    /\ loading.sources = <<>>
    /\ loading' = [loading EXCEPT !.pc = "returned"]
    /\ UNCHANGED world

NextLoad ==
    \/ \E read \in Reads, reads \in {NoReads} \cup [PdfFiles(world) -> Reads] :
          LoadNextSource(read, reads)
    \/ LoadDocumentsReturns

(***************************************************************************)
(* app.py: the global vector_store, the document-load request              *)
(* (load_documents_api, load_documents_action) and the query requests      *)
(* (query_documents_api), which run concurrently.                          *)
(***************************************************************************)
CHUNK_SIZE == 1000

CHUNK_OVERLAP == 200

TOP_K_RESULTS == 5

\* The k of a retriever made by as_retriever() without search_kwargs.
DefaultK == 4

VARIABLES
    vector_store,   \* the global of app.py: NoStore for None, or the VectorStore
    req,            \* the document-load request: where it is, the calls it made
    queries         \* the query requests: where each is and what it holds

appVars == <<vector_store, req, queries>>

QueryIds == {"query1", "query2"}

\* A VectorStore as app.py holds it: who constructed it, and its index.
NoStore == [owner |-> None, index |-> EmptyIndex]

StoreOf(owner, index) == [owner |-> owner, index |-> index]

\* What load_documents([settings.DATA_DIR]) may return: nothing, two
\* Documents, or five.
Corpora == {<<>>, <<DocB, DocA>>, <<DocA, DocB, DocA, DocB, DocB>>}

NoReq == [pc |-> "idle", kind |-> None, log |-> <<>>, response |-> None]

NoQuery == [pc |-> "idle", question |-> None, store |-> NoStore, docs |-> <<>>,
            tool |-> <<>>, asked |-> FALSE]

InitApp ==
    /\ vector_store = NoStore
    /\ req = NoReq
    /\ queries = [p \in QueryIds |-> NoQuery]

Called(call, ret) == [call |-> call, ret |-> ret]

Bool(b) == IF b THEN "True" ELSE "False"

AppLocation == PersistDirectory("vs")

\* vs.load() of a fresh VectorStore, given whether reading the files raises.
AppLoad(readFails) ==
    /\ PathExists(disk[AppLocation])
    /\ ~readFails
    /\ LoadLocal(disk[AppLocation]).ok

LoadDocumentsUnchecked(kind, readFails) ==
    /\ req.pc \in {"idle", "done"}
    /\ ~readFails
    /\ req' = [pc |-> "build", kind |-> kind, log |-> <<>>, response |-> None]
    /\ UNCHANGED <<vector_store, queries, disk, saved>>

\* The load request up to its decision: vs = VectorStore(), vs.exists(),
\* vs.load(); with the index loaded it sets the global (the API) and
\* returns, otherwise it goes on to build.
LoadDocuments(kind, readFails) ==
    /\ req.pc \in {"idle", "done"}
    /\ readFails => PathExists(disk[AppLocation])
    /\ LET exists == PathExists(disk[AppLocation])
           loaded == AppLoad(readFails)
           log == <<Called("exists", Bool(exists))>> \o
                    (IF exists THEN <<Called("load", Bool(loaded))>> ELSE <<>>)
       IN  IF loaded
           THEN /\ req' = [pc |-> "done", kind |-> kind, log |-> log,
                           response |-> "loaded"]
                /\ vector_store' =
                      IF kind = "api"
                      THEN StoreOf("load", LoadLocal(disk[AppLocation]).index)
                      ELSE vector_store
           ELSE /\ req' = [pc |-> "build", kind |-> kind, log |-> log,
                           response |-> None]
                /\ UNCHANGED vector_store
    /\ UNCHANGED <<queries, disk, saved>>

\* The load request builds: load_documents, and with Documents
\* split_documents and create_retriever(chunks, save=True), whose failure
\* (no chunks; the embedding, which is a save that wrote nothing; the save at
\* a later stage) leaves the handler as an exception.
LoadDocumentsBuild(docs, fail) ==
    /\ req.pc = "build"
    /\ LET chunks == SplitDocuments(docs, CHUNK_SIZE, CHUNK_OVERLAP)
           index == FromDocuments(chunks)
           ok == chunks # <<>> /\ fail = 3
       IN  IF docs = <<>>
           THEN /\ fail = 3
                /\ req' = [req EXCEPT !.pc = "done", !.response = "no documents",
                              !.log = Append(@, Called("load_documents", "0"))]
                /\ UNCHANGED <<vector_store, disk, saved>>
           ELSE /\ chunks = <<>> => fail = 3
                /\ req' = [req EXCEPT
                      !.pc = "done",
                      !.response = IF ok THEN "indexed" ELSE "error",
                      !.log = @ \o <<Called("load_documents", ToString(Len(docs))),
                                     Called("split_documents", ToString(Len(chunks))),
                                     Called("create_retriever",
                                            IF ok THEN "ok" ELSE "raise")>>]
                /\ IF chunks # <<>>
                   THEN SaveWrites(index, AppLocation, fail)
                   ELSE UNCHANGED <<disk, saved>>
                /\ vector_store' =
                      IF ok /\ req.kind = "api" THEN StoreOf("load", index)
                      ELSE vector_store
    /\ UNCHANGED queries

QueryBeginReloads(p, q) ==
    /\ queries[p].pc \in {"idle", "returned", "failed"}
    /\ IF AppLoad(FALSE)
       THEN /\ vector_store' = StoreOf(p, LoadLocal(disk[AppLocation]).index)
            /\ queries' = [queries EXCEPT ![p] =
                  [NoQuery EXCEPT !.pc = "ready", !.question = q,
                                  !.store = vector_store']]
       ELSE /\ queries' = [queries EXCEPT ![p] =
                  [NoQuery EXCEPT !.pc = "failed", !.question = q]]
            /\ UNCHANGED vector_store
    /\ UNCHANGED <<req, disk, saved>>

\* The query request starts: without a global VectorStore it loads one from
\* disk (400 when there is none) and makes it the global; it takes the
\* retriever of the global.
QueryBegin(p, q) ==
    /\ queries[p].pc \in {"idle", "returned", "failed"}
    /\ IF vector_store # NoStore
       THEN /\ queries' = [queries EXCEPT ![p] =
                  [NoQuery EXCEPT !.pc = "ready", !.question = q,
                                  !.store = vector_store]]
            /\ UNCHANGED vector_store
       ELSE IF AppLoad(FALSE)
       THEN /\ vector_store' = StoreOf(p, LoadLocal(disk[AppLocation]).index)
            /\ queries' = [queries EXCEPT ![p] =
                  [NoQuery EXCEPT !.pc = "ready", !.question = q,
                                  !.store = vector_store']]
       ELSE /\ queries' = [queries EXCEPT ![p] =
                  [NoQuery EXCEPT !.pc = "failed", !.question = q]]
            /\ UNCHANGED vector_store
    /\ UNCHANGED <<req, disk, saved>>

\* retriever.invoke(query) as the nodes use it: the documents found.
Retrieve(index, query) == Search(index, query, DefaultK)

\* The workflow's retriever node: retrieve_docs stores what the retriever
\* returns for the question, [] when it raises.
QueryRetrieve(p) ==
    /\ queries[p].pc = "ready"
    /\ LET r == Retrieve(queries[p].store.index, queries[p].question)
       IN  queries' = [queries EXCEPT ![p].pc = "retrieved",
                                      ![p].docs = IF r.raised THEN <<>> ELSE r.docs]
    /\ UNCHANGED <<vector_store, req, disk, saved>>

\* The agent calls the retriever tool with a query of its own: what the tool
\* gets from the retriever, nothing when the retriever raises.
QueryTool(p, query) ==
    /\ queries[p].pc = "retrieved"
    /\ ~queries[p].asked
    /\ LET r == Retrieve(queries[p].store.index, query)
       IN  queries' = [queries EXCEPT ![p].asked = TRUE,
                                      ![p].tool = IF r.raised THEN <<>> ELSE r.docs]
    /\ UNCHANGED <<vector_store, req, disk, saved>>

\* The query request returns the answer and the retrieved documents.
QueryReturn(p) ==
    /\ queries[p].pc = "retrieved"
    /\ queries' = [queries EXCEPT ![p].pc = "returned"]
    /\ UNCHANGED <<vector_store, req, disk, saved>>

\* The load requests come first and one at a time; the queries start once
\* no load is running or will run.
NoQueryYet == \A p \in QueryIds : queries[p].pc = "idle"

NextApp ==
    \/ \E kind \in {"api", "action"}, readFails \in BOOLEAN :
          NoQueryYet /\ LoadDocuments(kind, readFails)
    \/ \E docs \in Corpora, fail \in SaveStages :
          NoQueryYet /\ LoadDocumentsBuild(docs, fail)
    \/ \E p \in QueryIds, q \in Questions : req.pc # "build" /\ QueryBegin(p, q)
    \/ \E p \in QueryIds : QueryRetrieve(p)
    \/ \E p \in QueryIds, query \in Questions : QueryTool(p, query)
    \/ \E p \in QueryIds : QueryReturn(p)

(***************************************************************************)
(* save() step by step, next to a reader: another thread or process that   *)
(* calls exists() and load() of its own VectorStore on the same location.  *)
(* FAISS.save_local makes the directory, writes index.faiss and then       *)
(* pickles the docstore into index.pkl; nothing locks the location or      *)
(* writes to a temporary name.                                             *)
(***************************************************************************)
VARIABLES
    saving,         \* the save in progress: its stage, location, index, and
                    \* the location's content when it began
    seen            \* what the reader's last call returned

saveVars == <<saving, seen>>

NotSaving == [stage |-> 0, loc |-> None, idx |-> EmptyIndex, before |-> Absent]

NoSeen == [op |-> "none", loc |-> None, outcome |-> FALSE, index |-> EmptyIndex]

InitSave ==
    /\ saving = NotSaving
    /\ seen = NoSeen

\* save(path) up to the first step of save_local: the directory is made.
SaveBegin(i, path) ==
    /\ saving.stage = 0
    /\ vectorstore[i] # 0
    /\ saving' = [stage |-> 1, loc |-> Resolve(i, path),
                  idx |-> heap[vectorstore[i]], before |-> disk[Resolve(i, path)]]
    /\ disk' = [disk EXCEPT ![Resolve(i, path)] = MkDir(@)]
    /\ saved' = [saved EXCEPT ![Resolve(i, path)] = <<>>]
    /\ UNCHANGED <<vectorstore, retriever, heap, built, last, seen>>

\* save_local writes index.faiss.
SaveWritesFaiss ==
    /\ saving.stage = 1
    /\ disk' = [disk EXCEPT ![saving.loc] = WriteFaiss(@, saving.idx)]
    /\ saving' = [saving EXCEPT !.stage = 2]
    /\ UNCHANGED <<vectorstore, retriever, heap, saved, built, last, seen>>

\* save_local writes index.pkl and save returns.
SaveWritesPkl(i) ==
    /\ saving.stage = 2
    /\ disk' = [disk EXCEPT ![saving.loc] = WritePkl(@, saving.idx)]
    /\ saved' = [saved EXCEPT ![saving.loc] = <<saving.idx>>]
    /\ last' = Call("save", i, saving.loc, <<>>, FALSE, "ok")
    /\ saving' = NotSaving
    /\ UNCHANGED <<vectorstore, retriever, heap, built, seen>>

\* An I/O error ends the save where it is: save logs and re-raises.
SaveRaises(i) ==
    /\ saving.stage \in {1, 2}
    /\ last' = Call("save", i, saving.loc, <<>>, FALSE, "raise")
    /\ saving' = NotSaving
    /\ UNCHANGED <<vectorstore, retriever, heap, disk, saved, built, seen>>

\* What exists(path) returns on a location whose content is d.
SeenExists(loc, d) ==
    [op |-> "exists", loc |-> loc, outcome |-> PathExists(d), index |-> EmptyIndex]

\* What load(path) returns on a location whose content is d, and the index
\* it leaves in the reader's VectorStore.
SeenLoad(loc, d) ==
    IF ~PathExists(d) \/ ~LoadLocal(d).ok
    THEN [op |-> "load", loc |-> loc, outcome |-> FALSE, index |-> EmptyIndex]
    ELSE [op |-> "load", loc |-> loc, outcome |-> TRUE, index |-> LoadLocal(d).index]

\* The reader calls exists(path).
ReaderExists(path) ==
    /\ seen' = SeenExists(Resolve("vs", path), disk[Resolve("vs", path)])
    /\ UNCHANGED <<vsVars, saving>>

\* The reader calls load(path).
ReaderLoad(path) ==
    /\ seen' = SeenLoad(Resolve("vs", path), disk[Resolve("vs", path)])
    /\ UNCHANGED <<vsVars, saving>>

NextSave ==
    \/ \E i \in Instances, docs \in DocLists :
          /\ saving.stage = 0
          /\ CreateRetriever(i, docs, FALSE, 3)
          /\ UNCHANGED saveVars
    \/ \E i \in Instances, path \in PathArgs : SaveBegin(i, path)
    \/ SaveWritesFaiss
    \/ \E i \in Instances : SaveWritesPkl(i)
    \/ \E i \in Instances : SaveRaises(i)
    \/ \E path \in PathArgs : ReaderExists(path)
    \/ \E path \in PathArgs : ReaderLoad(path)

(***************************************************************************)
(* The specifications.                                                     *)
(***************************************************************************)
vars == <<wfVars, vsVars, saveVars, splitVars, loadVars, appVars>>

\* The workflow, over a vector store nobody changes.
\* The splitter of a DocumentProcessor built with the default sizes.
DefaultSplitter ==
    /\ splitter = [chunk_size |-> 500, chunk_overlap |-> 50]
    /\ splitIn = <<>>
    /\ splitDoc = NoDoc
    /\ splitChunks = <<>>
    /\ splitOut = <<>>

Init == InitWF /\ InitVS /\ InitSave /\ DefaultSplitter /\ IdleLoad /\ InitApp

Next == NextWF /\ UNCHANGED <<vsVars, saveVars, splitVars, loadVars, appVars>>

Spec == Init /\ [][Next]_vars

\* The VectorStore calls, with no query running.
InitStore ==
    /\ InitVS /\ InitWF /\ lib = [handleToolErrors |-> TRUE, remainingSteps |-> TRUE]
    /\ InitSave /\ DefaultSplitter /\ IdleLoad /\ InitApp

NextStore == NextVS /\ UNCHANGED <<wfVars, saveVars, splitVars, loadVars, appVars>>

SpecVS == InitStore /\ [][NextStore]_vars

\* A save in steps, interleaved with the reader.
NextSaveReader == NextSave /\ UNCHANGED <<wfVars, splitVars, loadVars, appVars>>

SpecSave == InitStore /\ [][NextSaveReader]_vars

\* split_documents over any Documents, for every chunk size and overlap.
InitSplitter ==
    /\ InitVS /\ disk = [l \in Locations |-> Absent]
    /\ InitWF /\ lib = [handleToolErrors |-> TRUE, remainingSteps |-> TRUE]
    /\ InitSave
    /\ InitSplit
    /\ IdleLoad
    /\ InitApp

NextSplitter == NextSplit /\ UNCHANGED <<wfVars, vsVars, saveVars, loadVars, appVars>>

SpecSplit == InitSplitter /\ [][NextSplitter]_vars

\* load_documents over any sources, on any platform.
InitLoader ==
    /\ InitVS /\ disk = [l \in Locations |-> Absent]
    /\ InitWF /\ lib = [handleToolErrors |-> TRUE, remainingSteps |-> TRUE]
    /\ InitSave
    /\ DefaultSplitter
    /\ InitLoad
    /\ InitApp

NextLoader == NextLoad /\ UNCHANGED <<wfVars, vsVars, saveVars, splitVars, appVars>>

SpecLoad == InitLoader /\ [][NextLoader]_vars

\* The requests of app.py.
NextRequests ==
    /\ NextApp
    /\ UNCHANGED <<wfVars, saveVars, splitVars, loadVars>>
    /\ UNCHANGED <<vectorstore, retriever, heap, built, last>>

SpecApp == InitStore /\ [][NextRequests]_vars

(***************************************************************************)
(* Properties of the workflow.                                             *)
(***************************************************************************)
FullPath == <<"retriever", "responder">>

IsPrefix(s, t) == Len(s) <= Len(t) /\ s = SubSeq(t, 1, Len(s))

\* C1: run always returns a terminal state whose answer is a non-empty
\* string, whatever succeeded or failed in the retrieve node, in building the
\* agent and in the agent loop; no exception of theirs reaches run's caller.
C1_AnswerAlwaysPresent ==
    /\ pc # "raised"
    /\ pc = "returned" =>
          /\ result # NoState
          /\ result.answer # None
          /\ result.answer # ""
          /\ Len(result.answer) > 0

C1_Witness ==
    /\ pc = "returned"
    /\ hist.retrieveErr # None
    /\ hist.buildErr
    /\ Len(result.answer) > 0

\* C2: every invocation runs the retrieve node once, then the responder node
\* once, then ends; run returns only after the responder has completed.
C2_SinglePath ==
    /\ IsPrefix(trace.started, FullPath)
    /\ IsPrefix(trace.completed, trace.started)
    /\ Len(trace.started) <= Len(trace.completed) + 1
    /\ pc \in {"agent", "tools"} => trace.started = FullPath
    /\ pc = "responder" => trace.completed = <<"retriever">>
    /\ pc \in {"END", "returned"} => trace.completed = FullPath

C2_Witness ==
    /\ pc = "returned"
    /\ trace.completed = FullPath
    /\ Len(messages) > 2

\* C3: when the retriever raises, the retrieve node records no documents and
\* the error text as the answer, the responder still runs, and the terminal
\* state has no documents and a non-empty answer.
C3_RetrievalFailureDegrades ==
    hist.retrieveErr # None =>
        /\ pc # "raised"
        /\ state.retrieved_docs = <<>>
        /\ pc = "responder" =>
              state.answer = "Error retrieving documents: " \o hist.retrieveErr
        /\ pc = "returned" =>
              /\ trace.completed = FullPath
              /\ result.retrieved_docs = <<>>
              /\ result.answer # None
              /\ Len(result.answer) > 0

C3_Witness ==
    /\ pc = "returned"
    /\ hist.retrieveErr # None
    /\ hist.agentErr = None
    /\ result.retrieved_docs = <<>>

\* C4 as stated: when the agent loop raises, the answer is the fixed
\* "No answer found." text, the same for every exception.
C4_FixedSentinelOnRaise ==
    (pc = "returned" /\ hist.agentErr # None) => result.answer = "No answer found."

\* C4 as amended: when the agent loop raises e, the responder does not
\* propagate it and the answer is "Error generating answer: " followed by
\* str(e), a text that differs from one exception to another.
C4_ErrorTextOnRaise ==
    /\ hist.agentErr # None => pc # "raised"
    /\ (pc = "returned" /\ hist.agentErr # None) =>
          result.answer = "Error generating answer: " \o hist.agentErr

C4_Witness ==
    /\ pc = "returned"
    /\ hist.agentErr = "timeout"
    /\ ~hist.buildErr
    /\ result.answer = "Error generating answer: timeout"

\* C5: an exception raised inside a tool call is caught and returned to the
\* model as the tool's output, the loop goes on with a further step, and the
\* exception never leaves the loop.
C5_ToolErrorsReturnedToModel ==
    hist.toolErr # None =>
        /\ hist.toolErrSeen
        /\ ~hist.toolErrLeft

\* Texts the model and the tools produced in the loop.
LoopTexts ==
    {messages[i].content : i \in {j \in 1..Len(messages) :
        /\ messages[j].role \in {"ai", "tool"}
        /\ messages[j].content \notin {None, "", SorryMessage}}}

\* C6: when the step bound is reached without a final answer, the answer is
\* text the loop produced so far, not a failure report.
C6_BestEffortAtBound ==
    (pc = "returned" /\ hist.boundHit) =>
        /\ result.answer \in LoopTexts
        /\ result.answer # AnswerOnError(RecursionErrorText)

(***************************************************************************)
(* Properties of the VectorStore.                                          *)
(***************************************************************************)
Memory == <<vectorstore, retriever, heap>>

\* C7: create_retriever on an empty list of chunks raises to the caller and
\* builds no index: the in-memory index and retriever stay as they were and
\* nothing is written to the persist location, whatever save is.
C7_EmptyInputRejected ==
    [][(last'.op = "create_retriever" /\ last'.empty) =>
          /\ last'.outcome = "ValueError"
          /\ UNCHANGED Memory
          /\ UNCHANGED disk]_vars

C7_Witness ==
    /\ last.op = "create_retriever"
    /\ last.empty
    /\ last.save
    /\ last.outcome = "ValueError"
    /\ vectorstore[last.inst] # 0
    /\ ~PathExists(disk[PersistDirectory(last.inst)])

\* C8 as stated: on an instance on which neither create_retriever nor load
\* has succeeded, save and add_documents raise and change nothing in memory
\* or at the persist location.
C8_NoIndexBeforeSuccess ==
    [][(last'.op \in {"save", "add_documents"} /\ built[last'.inst] # "succeeded") =>
          /\ last'.outcome = "ValueError"
          /\ UNCHANGED Memory
          /\ UNCHANGED disk]_vars

\* C8 as amended: on an instance on which no create_retriever has built an
\* index (not even one whose save step then failed) and no load has
\* succeeded, save and add_documents raise and change nothing in memory or
\* at the persist location.
C8_NoIndexBeforeBuild ==
    [][(last'.op \in {"save", "add_documents"} /\ built[last'.inst] = "none") =>
          /\ last'.outcome = "ValueError"
          /\ UNCHANGED Memory
          /\ UNCHANGED disk]_vars

C8_Witness ==
    /\ last.op \in {"save", "add_documents"}
    /\ last.outcome = "ValueError"
    /\ built[last.inst] = "none"
    /\ ~PathExists(disk[PersistDirectory(last.inst)])

\* C9: load of a location that does not exist never raises: it returns False
\* and leaves the in-memory index and retriever as they were, set or not.
C9_LoadMissingReturnsFalse ==
    [][(last'.op = "load" /\ ~disk[last'.loc].dir) =>
          /\ last'.outcome = "False"
          /\ UNCHANGED Memory
          /\ UNCHANGED disk]_vars

C9_Witness ==
    /\ last.op = "load"
    /\ last.outcome = "False"
    /\ ~disk[last.loc].dir
    /\ vectorstore[last.inst] # 0
    /\ heap[vectorstore[last.inst]].docs # <<>>

C12_DeleteIdempotent ==
    [][last'.op = "delete" =>
        /\ ~PathExists(disk[last'.loc]) =>
                last'.outcome = "ok" /\ UNCHANGED <<Memory, disk, saved, built>>
        /\ last'.outcome = "ok" => ~PathExists(disk'[last'.loc])
        /\ (last.op = "delete" /\ last.outcome = "ok" /\ last.loc = last'.loc) =>
                last'.outcome = "ok" /\ UNCHANGED <<Memory, disk, saved, built>>]_vars

\* A delete has returned normally, the location is gone, and the index built
\* in memory before it is still held.
C12_Witness ==
    /\ last.op = "delete" /\ last.outcome = "ok"
    /\ ~PathExists(disk[last.loc])
    /\ vectorstore[last.inst] # 0

\* The chunks of an index by their own distance to the query, nearest first
\* and earlier inserted first among equals.
ByOwnSimilarity(docs, q) ==
    LET order == NearestFirst(EmbedDocuments(docs), Embed(q), 1..Len(docs))
    IN  [n \in 1..Len(order) |-> docs[order[n]]]

\* C14: for every query q and size k, retrieval on the index a handle holds
\* returns at most k chunks, ordered by non-increasing similarity to q (here
\* non-decreasing distance), with ties in insertion order.
C14_TopKOrdered ==
    \A i \in Instances : retriever[i] # 0 =>
        \A q \in Questions : \A k \in 1..(MaxIndexLen + 1) :
            LET r == Search(heap[retriever[i]], q, k)
                own == ByOwnSimilarity(heap[retriever[i]].docs, q)
            IN  /\ ~r.raised
                /\ Len(r.docs) <= k
                /\ \A m \in 1..Len(r.docs) : \A n \in 1..Len(r.docs) :
                        m < n => Dist(Embed(r.docs[m].page_content), Embed(q))
                                   <= Dist(Embed(r.docs[n].page_content), Embed(q))
                /\ r.docs = SubSeq(own, 1, Min(k, Len(own)))

\* C19: every call of run is independent of the calls before it on the same
\* GraphBuilder. The graph is entered on a fresh state (the question given,
\* no retrieved documents, an empty answer), the cached agent is invoked on
\* this call's question alone, and the state run returns holds this call's
\* question, the documents retrieved in this call, and an answer made from
\* this call's last message or this call's error.
C19_RunsIndependent ==
    /\ pc = "retriever" =>
          state = [question |-> hist.question, retrieved_docs |-> <<>>,
                   answer |-> ""]
    /\ pc \in {"agent", "tools"} =>
          /\ Len(messages) >= 1
          /\ messages[1] = Msg("human", hist.question)
          /\ \A n \in 2..Len(messages) : messages[n].role # "human"
    /\ pc = "returned" =>
          /\ result.question = hist.question
          /\ result.retrieved_docs = hist.docs
          /\ result.answer =
                IF hist.agentErr # None THEN AnswerOnError(hist.agentErr)
                ELSE AnswerOr(messages[Len(messages)].content)

\* A second call on the same GraphBuilder has returned, with another
\* question than the state it found and fewer documents.
C19_Witness ==
    /\ pc = "returned"
    /\ hist.again
    /\ agent = "agent"
    /\ hist.retrieveErr # None
    /\ result.retrieved_docs = <<>>
    /\ result.answer = "Paris."

\* The location holds a partially written index: a save is in progress and
\* the content is neither the one before it nor the one after it.
PartiallyWritten ==
    /\ saving.stage > 0
    /\ disk[saving.loc] # saving.before
    /\ disk[saving.loc] # SaveLocal(saving.before, saving.idx)

\* C11: save is atomic for a concurrent reader. Whenever the reader calls
\* exists or load on the location of a save in progress, what it gets is what
\* the call returns on the complete content before the save or on the
\* complete content after it, and exists does not return True (nor load an
\* index) while the location holds a partially written index.
C11_SaveAtomic ==
    [][(seen' # seen /\ saving.stage > 0 /\ seen'.loc = saving.loc) =>
        /\ seen'.op = "exists" =>
              seen' \in {SeenExists(saving.loc, saving.before),
                         SeenExists(saving.loc, SaveLocal(saving.before, saving.idx))}
        /\ seen'.op = "load" =>
              seen' \in {SeenLoad(saving.loc, saving.before),
                         SeenLoad(saving.loc, SaveLocal(saving.before, saving.idx))}
        /\ PartiallyWritten => ~seen'.outcome]_vars

IsSubstring(c, t) ==
    \E i \in 1..(Len(t) + 1) : \E j \in (i - 1)..Len(t) : SubSeq(t, i, j) = c

\* C20: every chunk split_documents makes of a Document has a text of at most
\* chunk_size characters that occurs in the Document's text, and carries the
\* Document's metadata as they are.
C20_ChunksBounded ==
    /\ \A n \in 1..Len(splitChunks) :
        /\ Len(splitChunks[n].page_content) <= splitter.chunk_size
        /\ IsSubstring(splitChunks[n].page_content, splitDoc.page_content)
        /\ splitChunks[n].source = splitDoc.source
        /\ splitChunks[n].title = splitDoc.title
    /\ Len(splitOut) >= Len(splitChunks)
    /\ SubSeq(splitOut, Len(splitOut) - Len(splitChunks) + 1, Len(splitOut))
          = splitChunks

\* A text longer than the chunk size was split with an overlap into several
\* chunks, one of them of full size.
C20_Witness ==
    /\ Len(splitChunks) >= 2
    /\ splitter.chunk_overlap > 0
    /\ splitDoc.source = "a.pdf"
    /\ Len(splitDoc.page_content) > splitter.chunk_size
    /\ \E n \in 1..Len(splitChunks) :
          Len(splitChunks[n].page_content) = splitter.chunk_size

RECURSIVE Flatten(_)
Flatten(parts) ==
    IF parts = <<>> THEN <<>> ELSE Head(parts).docs \o Flatten(Tail(parts))

IsUrl(src) == StartsWith(src, "http://") \/ StartsWith(src, "https://")

\* C16: load_documents never raises because of one bad source. A source
\* whose load fails or whose type is not supported gives no Documents, a URL
\* or file that loads gives its Documents, and the Documents of the call are
\* those of its sources, one source after the other.
C16_LoadIsolatesFailures ==
    /\ loading.pc # "raised"
    /\ loading.docs = Flatten(loading.parts)
    /\ \A n \in 1..Len(loading.parts) :
          LET p == loading.parts[n]
          IN  /\ p.read = "unreadable" => p.docs = <<>>
              /\ (~IsUrl(p.source) /\ IsDir(p.source) = "False"
                    /\ Lower(PathSuffix(p.source)) \notin {".txt", ".pdf"}) =>
                    p.docs = <<>>
              /\ (IsUrl(p.source) /\ p.read = "ok") => p.docs = <<WebPage(p.source)>>
              /\ (~IsUrl(p.source) /\ IsDir(p.source) = "False" /\ p.read = "ok"
                    /\ Lower(PathSuffix(p.source)) \in {".txt", ".pdf"}) =>
                    p.docs = <<PageOf(p.source)>>

Occurrences(docs, file) == Cardinality({n \in 1..Len(docs) : docs[n].source = file})

\* C17: a directory source gives the Documents of every file in it whose
\* extension is .pdf in any case, each file loaded once; a file that cannot
\* be read gives nothing and takes nothing from the others; a directory
\* without PDFs gives no Documents and no error.
C17_DirectoryEveryPdfOnce ==
    /\ loading.pc = "raised" => IsDir(Head(loading.sources)) # "True"
    /\ \A n \in 1..Len(loading.parts) :
          LET p == loading.parts[n]
          IN  (~IsUrl(p.source) /\ IsDir(p.source) = "True") =>
                /\ \A f \in PdfFiles(world) :
                      Occurrences(p.docs, f) =
                          IF p.reads[f] = "unreadable" THEN 0 ELSE 1
                /\ \A m \in 1..Len(p.docs) : p.docs[m].source \in PdfFiles(world)

BuildCalls == {"load_documents", "split_documents", "create_retriever"}

\* The request found no location, or found one that load did not load.
CheckedAndMissed(log) ==
    /\ Len(log) >= 1
    /\ log[1].call = "exists"
    /\ \/ log[1].ret = "False"
       \/ Len(log) >= 2 /\ log[2] = Called("load", "False")

\* C13: a document-load request calls exists first, and load when the
\* location exists; it runs the loader, the chunker and create_retriever only
\* after exists returned False or load returned False, and never once load
\* returned True.
C13_CheckBeforeBuild ==
    /\ req.log # <<>> => req.log[1].call = "exists"
    /\ (req.log # <<>> /\ req.log[1].ret = "True") =>
          Len(req.log) >= 2 /\ req.log[2].call = "load"
    /\ req.pc = "build" => CheckedAndMissed(req.log)
    /\ \A n \in 1..Len(req.log) :
          req.log[n].call \in BuildCalls =>
              /\ CheckedAndMissed(req.log)
              /\ n > 1
              /\ \A m \in 1..Len(req.log) : req.log[m] # Called("load", "True")

\* A request that found the location, could not load it, and built the index.
C13_Witness ==
    /\ req.pc = "done"
    /\ req.response = "indexed"
    /\ req.log[1] = Called("exists", "True")
    /\ req.log[2] = Called("load", "False")
    /\ req.log[Len(req.log)] = Called("create_retriever", "ok")

\* C15: the retriever the workflow gets retrieves the configured top-K
\* (5 by default): a query over an index of at least 5 chunks retrieves 5.
C15_TopKConfigured ==
    \A p \in QueryIds :
        (/\ queries[p].pc \in {"retrieved", "returned"}
         /\ Len(queries[p].store.index.docs) >= TOP_K_RESULTS
         /\ Len(queries[p].store.index.vectors) = Len(queries[p].store.index.docs)) =>
            Len(queries[p].docs) = TOP_K_RESULTS

\* What a query for the question q gets from the index when it runs alone.
Alone(index, q) ==
    IF Search(index, q, DefaultK).raised THEN <<>> ELSE Search(index, q, DefaultK).docs

\* C18: queries only read. A step of a query request made while the global
\* VectorStore is loaded changes neither the global, nor its index, nor the
\* persisted location, and every query on the global holds, for its question
\* and for its tool call, what the global's index gives a query running
\* alone.
C18_QueriesReadOnly ==
    [][(queries' # queries /\ vector_store # NoStore) =>
        /\ vector_store' = vector_store
        /\ disk' = disk
        /\ saved' = saved
        /\ \A p \in QueryIds :
              (queries'[p].pc \in {"retrieved", "returned"}
                 /\ queries'[p].store = vector_store') =>
                  /\ queries'[p].docs = Alone(vector_store'.index, queries'[p].question)
                  /\ queries'[p].asked =>
                        \E q \in Questions :
                            queries'[p].tool = Alone(vector_store'.index, q)]_vars

\* Two queries with different questions are in progress on the same loaded
\* VectorStore, one of them after its tool call.
C18_Witness ==
    /\ vector_store # NoStore
    /\ Len(vector_store.index.docs) >= 2
    /\ queries["query1"].pc = "retrieved"
    /\ queries["query1"].asked
    /\ queries["query2"].pc = "ready"
    /\ queries["query1"].store = vector_store
    /\ queries["query2"].store = vector_store
    /\ queries["query1"].question # queries["query2"].question

\* The answers the retrieve node leaves when retriever.invoke raises.
RetrievalErrorTexts == {RetrieveFailed(NoState, e).answer : e \in ExcTexts}

\* What the agent did in this invocation makes of the answer: the error text
\* of the exception that left it, or else the content of its last message.
ResponderAnswer ==
    IF hist.agentErr # None THEN AnswerOnError(hist.agentErr)
    ELSE AnswerOr(messages[Len(messages)].content)

\* C21: the terminal answer is determined by the responder alone. The agent
\* is invoked on a conversation holding the question and nothing else (no
\* retrieved chunk, no answer left by the retrieve node); when the responder
\* ends, the answer field is replaced by a text that depends only on what the
\* agent did (its last message or its exception), whatever the retrieve node
\* returned or left in the field, so that equal agent behaviour gives equal
\* answers after a successful and after a failed retrieval; the retrieval
\* error text is never the answer that run returns.
C21_AnswerFromResponderAlone ==
    [][/\ (pc = "responder" /\ pc' = "agent") =>
             messages' = <<Msg("human", state.question)>>
       /\ (pc \in {"responder", "agent", "tools"} /\ pc' = "END") =>
             /\ state'.answer = ResponderAnswer'
             /\ state'.answer # state.answer
             /\ state'.answer \notin RetrievalErrorTexts
             /\ state'.question = state.question
             /\ state'.retrieved_docs = state.retrieved_docs
       /\ (pc = "END" /\ pc' = "returned") =>
             /\ result' = state
             /\ result'.answer \notin RetrievalErrorTexts]_vars

\* A run has returned the agent's final text although its retrieve node had
\* failed and left the retrieval error text in the answer field.
C21_Witness ==
    /\ pc = "returned"
    /\ hist.retrieveErr = "timeout"
    /\ hist.agentErr = None
    /\ hist.toolErr = None
    /\ Len(messages) = 2
    /\ result.answer = "Paris."

\* An index and a retriever are held together, and exactly by an instance on
\* which a create_retriever has built an index or a load has succeeded.
IndexIffRetriever ==
    \A i \in Instances :
        /\ (vectorstore[i] # 0) <=> (retriever[i] # 0)
        /\ (retriever[i] # 0) <=> (built[i] # "none")

\* C22: after any sequence of calls on a VectorStore, successful or failing,
\* the in-memory index is set if and only if the retriever is set; hence
\* get_retriever succeeds exactly when a create_retriever has built an index
\* or a load has succeeded on the instance, and changes nothing; and a delete
\* of the persisted location, whether it returns or raises, unsets neither
\* the index nor the retriever.
C22_IndexIffRetriever ==
    /\ []IndexIffRetriever
    /\ [][/\ last'.op = "get_retriever" =>
                /\ (last'.outcome = "ok") <=> (built[last'.inst] # "none")
                /\ (last'.outcome = "ValueError") <=> (built[last'.inst] = "none")
                /\ UNCHANGED <<Memory, disk, saved, built>>
          /\ last'.op = "delete" => UNCHANGED <<Memory, built>>]_vars

\* get_retriever has succeeded on an instance whose create_retriever built
\* an index and then raised in its save step, with nothing at the location.
C22_Witness ==
    /\ last.op = "get_retriever"
    /\ last.outcome = "ok"
    /\ built[last.inst] = "built"
    /\ retriever[last.inst] # 0
    /\ ~PathExists(disk[PersistDirectory(last.inst)])

====
